---------------------------- MODULE Spec2Model ----------------------------
(***************************************************************************)
(* A model of instagram-rss: generate_site.main, the two export parsers    *)
(* (InstagramJSONParser, InstagramParser), the selection file, and the     *)
(* renderer steps that main drives (SiteGenerator, RSSGenerator).          *)
(*                                                                         *)
(* Six specifications share the variables:                                 *)
(*   Spec         generate_site.main from start to exit, on small exports  *)
(*   SpecParse    the parse step of main on richly varied export content   *)
(*   SpecHashtags _extract_hashtags applied (twice) to every short text    *)
(*   SpecTitles   the two _truncate_title on long texts                    *)
(*   SpecDates    _format_timestamp followed by the feed's _parse_date     *)
(*   SpecSelect   select_posts.py from its mode prompt on                  *)
(*                                                                         *)
(* Encodings.  A Python str is a sequence of one-character strings; a      *)
(* path or URI is a sequence of path components (the empty sequence is     *)
(* the empty string).  A JSON scalar read with dict.get is a record        *)
(* [k, s, n]: k = "absent" (key missing), "null", "str" (payload s) or     *)
(* "num" (payload n).  An exception is a result record with st = "raise".  *)
(***************************************************************************)
EXTENDS Integers, Sequences, FiniteSets, TLC

VARIABLES
    pc,             \* position of generate_site.main
    exit_status,    \* -1 while running, else the process's exit status
    exportExists,   \* insta-export/ exists
    jsonExists,     \* .../media/posts_1.json exists
    htmlExists,     \* .../media/posts_1.html exists
    data,           \* content of posts_1.json (see JsonFile)
    htmlDoc,        \* post blocks of posts_1.html
    exportImages,   \* the image paths that exist under the export root
    selectionFile,  \* selected_posts.json: [exists, items]
    tz,             \* seconds the machine's local time is ahead of UTC
    parser,         \* "none", "json" or "html": the parser object main holds
    posts,          \* the list main holds (the Post objects themselves)
    selected_posts, \* the list handed to the feed, as references into posts
    siteDirs,       \* directories created under site/
    siteImages,     \* site/images: file name -> source path it was copied from
    pages,          \* site/posts/post-N.html written, by N
    indexWritten,   \* site/index.html written
    feed,           \* items of site/feed.xml, <<>> until written
    feedWritten,    \* site/feed.xml written
    tpc,            \* position of the text-utility driver
    text,           \* its input text
    run1,           \* result of the first _extract_hashtags
    run2,           \* result of _extract_hashtags on run1's cleaned text
    rssTags,        \* result of RSSGenerator._extract_hashtags on the text
    feedTitle,      \* result of RSSGenerator._truncate_title on the text
    pageTitle,      \* result of SiteGenerator._truncate_title on the text
    stamp,          \* a timestamp handed to _format_timestamp
    dateStr,        \* the date _format_timestamp returned for it
    pubDate,        \* what RSSGenerator._parse_date made of that date
    spc,            \* position of select_posts.py
    selected,       \* its in-memory set of selected indices
    cursor,         \* idx of the loop of interactive_selection
    cmd             \* the command select_posts.py executed last

fsVars   == <<exportExists, jsonExists, htmlExists, data, htmlDoc, exportImages,
              selectionFile, tz>>
mainVars == <<pc, exit_status, parser, posts, selected_posts>>
siteVars == <<siteDirs, siteImages, pages, indexWritten, feed, feedWritten>>
textVars == <<tpc, text, run1, run2, rssTags>>
utilVars == <<feedTitle, pageTitle, stamp, dateStr, pubDate>>
toolVars == <<spc, selected, cursor, cmd>>
vars     == <<fsVars, mainVars, siteVars, textVars, utilVars, toolVars>>

-----------------------------------------------------------------------------
(* Bounds of the model *)

\* longest text handed to _extract_hashtags in SpecHashtags
MaxLen == 6
\* most media items of one record, and most records of a batch, in SpecParse
MaxMedia == 2
\* most EXIF entries of one media item in SpecParse
MaxExif == 2
\* most records of posts_1.json in Spec and in the batch family of SpecParse
MaxRecords == 3
\* most entries of the array in selected_posts.json
MaxSel == 2
\* most punctuation marks and spaces placed in a title in SpecTitles
MaxMarks == 2

-----------------------------------------------------------------------------
(* Python values *)

Absent == [k |-> "absent", s |-> <<>>, n |-> 0]
None   == [k |-> "null",   s |-> <<>>, n |-> 0]
Str(s) == [k |-> "str",    s |-> s,    n |-> 0]
Num(n) == [k |-> "num",    s |-> <<>>, n |-> n]

\* bool(v) of a scalar
Truthy(v) ==
    CASE v.k = "str" -> v.s # <<>>
      [] v.k = "num" -> v.n # 0
      [] OTHER       -> FALSE

\* d.get(key, default) once the key's entry v is known
GetOr(v, default) == IF v.k = "absent" THEN default ELSE v

SeqsUpTo(S, n) == UNION {[1..m -> S] : m \in 0..n}

RECURSIVE SeqToSet(_)
SeqToSet(s) == IF s = <<>> THEN {} ELSE {Head(s)} \cup SeqToSet(Tail(s))

-----------------------------------------------------------------------------
(* Characters and the regular expressions of _extract_hashtags *)

\* "<C3>" and "<A9>" are the Latin-1 characters (A with tilde, copyright
\* sign) whose bytes 0xC3 0xA9 are the UTF-8 encoding of "<e9>" (e with
\* acute); "<20AC>" (the euro sign) is a character outside Latin-1.
Latin1Lead  == "<C3>"
Latin1Cont  == "<A9>"
Decoded     == "<e9>"
NonLatin1   == "<20AC>"

LowerLetters == {"a", "b", Decoded}
UpperLetters == {"A", "B", Latin1Lead}
OtherWord    == {"_", "1"}
SpaceChars   == {" ", "\n"}

\* \w of re (letters, digits, underscore)
IsWord(c) == c \in LowerLetters \cup UpperLetters \cup OtherWord
\* \s of re, and the characters str.strip() removes
IsSpace(c) == c \in SpaceChars

\* str.lower() on one character
LowerChar(c) ==
    CASE c = "A" -> "a"
      [] c = "B" -> "b"
      [] OTHER   -> c

\* tag.lower()
Lower(tag) == [j \in DOMAIN tag |-> LowerChar(tag[j])]

\* last index of the maximal run of \w starting at i (i - 1 when it is empty)
RECURSIVE WordRunEnd(_, _)
WordRunEnd(t, i) ==
    IF i <= Len(t) /\ IsWord(t[i]) THEN WordRunEnd(t, i + 1) ELSE i - 1

\* first index at or after i that holds no whitespace (Len(t) + 1 when none)
RECURSIVE SpaceRunEnd(_, _)
SpaceRunEnd(t, i) ==
    IF i <= Len(t) /\ IsSpace(t[i]) THEN SpaceRunEnd(t, i + 1) ELSE i

\* re.findall(r'#(\w+)', t) scanning from index i
RECURSIVE FindAllFrom(_, _)
FindAllFrom(t, i) ==
    IF i > Len(t) THEN <<>>
    ELSE LET e == WordRunEnd(t, i + 1) IN
         IF t[i] = "#" /\ e >= i + 1
         THEN <<SubSeq(t, i + 1, e)>> \o FindAllFrom(t, e + 1)
         ELSE FindAllFrom(t, i + 1)

FindAll(t) == FindAllFrom(t, 1)

\* the loop "for tag in hashtags: if tag.lower() not in seen: ..."
RECURSIVE UniqueFrom(_, _, _)
UniqueFrom(tags, i, seen) ==
    IF i > Len(tags) THEN <<>>
    ELSE LET low == Lower(tags[i]) IN
         IF low \in seen
         THEN UniqueFrom(tags, i + 1, seen)
         ELSE <<tags[i]>> \o UniqueFrom(tags, i + 1, seen \cup {low})

\* a deduplication that compares the tags as written (no lower())
RECURSIVE UniqueExactFrom(_, _, _)
UniqueExactFrom(tags, i, seen) ==
    IF i > Len(tags) THEN <<>>
    ELSE IF tags[i] \in seen
         THEN UniqueExactFrom(tags, i + 1, seen)
         ELSE <<tags[i]>> \o UniqueExactFrom(tags, i + 1, seen \cup {tags[i]})

UniqueHashtagsExact(tags) == UniqueExactFrom(tags, 1, {})

\* lines 56-63: the tags of the first occurrences, case-insensitively
UniqueHashtags(tags) == UniqueFrom(tags, 1, {})

\* re.sub(r'\s*#\w+', '', t) scanning from index i: \s* is greedy, so a match
\* starting at i takes the whole whitespace run, then '#', then the \w run
RECURSIVE SubFrom(_, _)
SubFrom(t, i) ==
    IF i > Len(t) THEN <<>>
    ELSE LET p == SpaceRunEnd(t, i)
             e == WordRunEnd(t, p + 1)
         IN  IF p <= Len(t) /\ t[p] = "#" /\ e >= p + 1
             THEN SubFrom(t, e + 1)
             ELSE <<t[i]>> \o SubFrom(t, i + 1)

\* a substitution with the pattern \s+#\w+, which needs whitespace before '#'
RECURSIVE SubSpacedFrom(_, _)
SubSpacedFrom(t, i) ==
    IF i > Len(t) THEN <<>>
    ELSE LET p == SpaceRunEnd(t, i)
             e == WordRunEnd(t, p + 1)
         IN  IF p > i /\ p <= Len(t) /\ t[p] = "#" /\ e >= p + 1
             THEN SubSpacedFrom(t, e + 1)
             ELSE <<t[i]>> \o SubSpacedFrom(t, i + 1)

RemoveHashtagsSpaced(t) == SubSpacedFrom(t, 1)

\* re.sub(r'\s*#\w+', '', text)
RemoveHashtags(t) == SubFrom(t, 1)

RECURSIVE LStrip(_)
LStrip(t) == IF t # <<>> /\ IsSpace(Head(t)) THEN LStrip(Tail(t)) ELSE t

RECURSIVE RStrip(_)
RStrip(t) ==
    IF t # <<>> /\ IsSpace(t[Len(t)]) THEN RStrip(SubSeq(t, 1, Len(t) - 1)) ELSE t

\* str.strip()
Strip(t) == RStrip(LStrip(t))

\* InstagramJSONParser._extract_hashtags on a str: (clean_text, unique_hashtags)
ExtractHashtagsStr(t) ==
    IF t = <<>> THEN [clean |-> t, tags |-> <<>>]
    ELSE [clean |-> Strip(RemoveHashtags(t)),
          tags  |-> UniqueHashtags(FindAll(t))]

\* RSSGenerator._extract_hashtags: the list alone
Rss_extract_hashtags(t) ==
    IF t = <<>> THEN <<>> ELSE UniqueHashtags(FindAll(t))


-----------------------------------------------------------------------------
(* Title truncation: RSSGenerator._truncate_title, SiteGenerator._truncate_title *)

\* max_length of the feed's titles, of the pages' titles, and the least
\* position at which a page title is cut at punctuation
FeedLimit == 100
PageLimit == 60
MinCut    == 15

Ellipsis == <<".", ".", ".">>

\* text[:n]
Prefix(t, n) == SubSeq(t, 1, IF n < Len(t) THEN n ELSE Len(t))

\* the 1-based position of the first and of the last space of t, 0 if none
FirstSpace(t) ==
    IF \E i \in 1..Len(t) : t[i] = " "
    THEN CHOOSE i \in 1..Len(t) : t[i] = " " /\ \A j \in 1..(i - 1) : t[j] # " "
    ELSE 0

LastSpace(t) ==
    IF \E i \in 1..Len(t) : t[i] = " "
    THEN CHOOSE i \in 1..Len(t) : t[i] = " " /\ \A j \in (i + 1)..Len(t) : t[j] # " "
    ELSE 0

\* a split at the first space instead of the last
RsplitHeadFirst(t) ==
    IF FirstSpace(t) = 0 THEN t ELSE SubSeq(t, 1, FirstSpace(t) - 1)

\* t.rsplit(' ', 1)[0]
RsplitHead(t) ==
    IF LastSpace(t) = 0 THEN t ELSE SubSeq(t, 1, LastSpace(t) - 1)

\* RSSGenerator._truncate_title(text, max_length)
Rss_truncate_title(t, max_length) ==
    IF Len(t) <= max_length THEN t
    ELSE RsplitHead(Prefix(t, max_length)) \o Ellipsis

\* text.find(delimiter) for a two-character delimiter <<c, " ">>: the
\* 0-based position of the first occurrence in the whole text, -1 if none
Find(t, c) ==
    IF \E i \in 1..(Len(t) - 1) : t[i] = c /\ t[i + 1] = " "
    THEN (CHOOSE i \in 1..(Len(t) - 1) :
              /\ t[i] = c /\ t[i + 1] = " "
              /\ \A j \in 1..(i - 1) : ~(t[j] = c /\ t[j + 1] = " ")) - 1
    ELSE -1

\* "15 <= pos <= max_length"
InWindow(pos, max_length) == MinCut <= pos /\ pos <= max_length

\* SiteGenerator._truncate_title(text, max_length): the delimiters are tried
\* in the order '. ', '! ', '? ', each at its first occurrence only
Site_truncate_title(t, max_length) ==
    IF Len(t) <= max_length THEN t
    ELSE IF InWindow(Find(t, "."), max_length) THEN Prefix(t, Find(t, ".") + 1)
    ELSE IF InWindow(Find(t, "!"), max_length) THEN Prefix(t, Find(t, "!") + 1)
    ELSE IF InWindow(Find(t, "?"), max_length) THEN Prefix(t, Find(t, "?") + 1)
    ELSE IF InWindow(Find(t, ","), max_length) THEN Prefix(t, Find(t, ","))
    ELSE RsplitHead(Prefix(t, max_length)) \o Ellipsis

-----------------------------------------------------------------------------
(* InstagramJSONParser *)


\* text.encode('latin-1') succeeds
Latin1Encodable(t) == \A j \in DOMAIN t : t[j] # NonLatin1

\* bytes.decode('utf-8') of the Latin-1 bytes of t from index i:
\* [ok, s]; a lead byte needs its continuation byte, a continuation byte or
\* the single byte of "<e9>" (0xE9, a three-byte lead) cannot stand alone
RECURSIVE Utf8DecodeFrom(_, _)
Utf8DecodeFrom(t, i) ==
    IF i > Len(t) THEN [ok |-> TRUE, s |-> <<>>]
    ELSE IF t[i] = Latin1Lead
         THEN IF i + 1 <= Len(t) /\ t[i + 1] = Latin1Cont
              THEN LET r == Utf8DecodeFrom(t, i + 2) IN
                   [ok |-> r.ok, s |-> <<Decoded>> \o r.s]
              ELSE [ok |-> FALSE, s |-> <<>>]
         ELSE IF t[i] \in {Latin1Cont, Decoded}
              THEN [ok |-> FALSE, s |-> <<>>]
              ELSE LET r == Utf8DecodeFrom(t, i + 1) IN
                   [ok |-> r.ok, s |-> <<t[i]>> \o r.s]

\* text.encode('latin-1').decode('utf-8'), or text itself on either error
FixStr(t) ==
    IF ~Latin1Encodable(t) THEN t
    ELSE LET r == Utf8DecodeFrom(t, 1) IN IF r.ok THEN r.s ELSE t

Ok(v)      == [st |-> "ok", exc |-> "", v |-> v]
Raise(exc) == [st |-> "raise", exc |-> exc, v |-> None]

\* _fix_encoding(text): a falsy value is returned as it is, a non-empty str is
\* repaired, any other truthy value has no .encode
Json_fix_encoding(v) ==
    IF ~Truthy(v) THEN Ok(v)
    ELSE IF v.k = "str" THEN Ok(Str(FixStr(v.s)))
    ELSE Raise("AttributeError")

\* _extract_hashtags(text) as _parse_post calls it: text is falsy or a str
Json_extract_hashtags(v) ==
    IF ~Truthy(v) THEN [clean |-> v, tags |-> <<>>]
    ELSE LET r == ExtractHashtagsStr(v.s) IN [clean |-> Str(r.clean), tags |-> r.tags]

\* Timestamps are scaled: the model's integers keep the order of the real
\* thresholds of datetime.fromtimestamp.  Within [YearMinTs, YearMaxTs] the
\* local time has a year in 1..9999; beyond it, within time_t, fromtimestamp
\* raises ValueError; beyond time_t it raises OverflowError.
YearMaxTs == 1000
YearMinTs == -1000
TimeTMax  == 2000
TimeTMin  == -2000

\* A date string: k = "unknown" is "Unknown date", k = "fmt" a string of the
\* shape "%b %d, %Y %I:%M %p" naming the minute `minute` (minutes since the
\* epoch, read as a naive date and time), k = "empty" the empty string and
\* k = "other" any other text.
UnknownDate == [k |-> "unknown", minute |-> 0]
EmptyDate   == [k |-> "empty", minute |-> 0]
OtherDate   == [k |-> "other", minute |-> 0]

\* datetime.fromtimestamp(n).strftime("%b %d, %Y %I:%M %p"): the local time
\* of instant n on a machine offset seconds ahead of UTC, cut to the minute
FormattedDate(n, offset) == [k |-> "fmt", minute |-> (n + offset) \div 60]

\* _format_timestamp(timestamp) on a machine offset seconds ahead of UTC
Json_format_timestamp(ts, offset) ==
    IF ~Truthy(ts) THEN Ok(UnknownDate)
    ELSE IF ts.k # "num" THEN Raise("TypeError")
    ELSE IF ts.n > TimeTMax \/ ts.n < TimeTMin THEN Raise("OverflowError")
    ELSE IF ts.n > YearMaxTs \/ ts.n < YearMinTs THEN Ok(UnknownDate)
    ELSE Ok(FormattedDate(ts.n, offset))

\* an assignment without the "and not latitude" guard: the last truthy wins
LastTruthy(cur, v) == IF Truthy(v) THEN v ELSE cur

\* "if exif.get('latitude') and not latitude: latitude = exif.get('latitude')"
FirstTruthy(cur, v) == IF Truthy(v) /\ ~Truthy(cur) THEN v ELSE cur

\* the loop "for exif in exif_data" from entry i, on the scan state acc
RECURSIVE ExifScan(_, _, _)
ExifScan(exif, i, acc) ==
    IF i > Len(exif) \/ acc.exc # "" THEN acc
    ELSE IF exif[i].kind # "obj"
         THEN [acc EXCEPT !.exc = "AttributeError"]
         ELSE ExifScan(exif, i + 1,
                  [acc EXCEPT
                      !.latitude  = FirstTruthy(@, GetOr(exif[i].latitude, None)),
                      !.longitude = FirstTruthy(@, GetOr(exif[i].longitude, None))])

\* a title rule that lets every media title replace the one found so far
MediaTitleOverwrite(title, m) ==
    IF Truthy(GetOr(m.title, Str(<<>>)))
    THEN Json_fix_encoding(GetOr(m.title, Str(<<>>)))
    ELSE Ok(title)

\* "if not title: title = self._fix_encoding(media.get('title', ''))"
MediaTitle(title, m) ==
    IF Truthy(title) THEN Ok(title)
    ELSE Json_fix_encoding(GetOr(m.title, Str(<<>>)))

\* an append without the "if uri" test
AppendUriAlways(images, m) == Append(images, GetOr(m.uri, Str(<<>>)).s)

\* images.insert(0, uri) in place of images.append(uri)
AppendUriFront(images, m) ==
    LET uri == GetOr(m.uri, Str(<<>>)) IN
    IF Truthy(uri) THEN <<uri.s>> \o images ELSE images

\* "uri = media.get('uri', ''); if uri: images.append(uri)"
AppendUri(images, m) ==
    LET uri == GetOr(m.uri, Str(<<>>)) IN
    IF Truthy(uri) THEN Append(images, uri.s) ELSE images

\* one iteration of "for media in media_items" (lines 115-134)
MediaStep(acc, m) ==
    IF m.kind # "obj" THEN [acc EXCEPT !.exc = "AttributeError"]
    ELSE
    LET t == MediaTitle(acc.title, m) IN
    IF t.st = "raise" THEN [acc EXCEPT !.exc = t.exc]
    ELSE
    LET acc1 == [acc EXCEPT !.title = t.v, !.images = AppendUri(@, m)] IN
    \* media.get('media_metadata', {}).get('photo_metadata', {}).get('exif_data', [])
    IF m.mm_k = "absent" \/ (m.mm_k = "obj" /\ m.pm_k = "absent")
       \/ (m.mm_k = "obj" /\ m.pm_k = "obj" /\ m.exif_k = "absent")
    THEN acc1
    ELSE IF m.mm_k = "null" \/ m.pm_k = "null"
    THEN [acc1 EXCEPT !.exc = "AttributeError"]
    ELSE IF m.exif_k = "null"
    THEN [acc1 EXCEPT !.exc = "TypeError"]
    ELSE ExifScan(m.exif, 1, acc1)

RECURSIVE MediaScan(_, _, _)
MediaScan(media, i, acc) ==
    IF i > Len(media) \/ acc.exc # "" THEN acc
    ELSE MediaScan(media, i + 1, MediaStep(acc, media[i]))

\* lines 99-106: the record's timestamp, else the first media item's, else 0
ResolveTimestamp(pd) ==
    LET ts == GetOr(pd.creation_timestamp, Num(0)) IN
    IF Truthy(ts) THEN Ok(ts)
    ELSE IF pd.media[1].kind # "obj" THEN Raise("AttributeError")
    ELSE LET mts == GetOr(pd.media[1].creation_timestamp, Num(0)) IN
         IF Truthy(mts) THEN Ok(mts) ELSE Ok(Num(0))

NoPost == [title |-> None, images |-> <<>>, date |-> UnknownDate, timestamp |-> 0,
           latitude |-> None, longitude |-> None, tagged_users |-> <<>>,
           hashtags |-> <<>>, cls |-> "none", rec |-> 0]

Skipped     == [st |-> "none", exc |-> "", post |-> NoPost]
Raised(exc) == [st |-> "raise", exc |-> exc, post |-> NoPost]

\* _parse_post(post_data) for the record at index rec of the array:
\* st = "post" with the Post, "none" (returns None) or "raise".
\* Field rec of a Post is not a field of the program's Post: it records which
\* record the Post was built from.
Json_parse_post(pd, rec, offset) ==
    IF pd.kind # "obj" THEN Raised("AttributeError")
    ELSE
    LET title == Json_fix_encoding(GetOr(pd.title, Str(<<>>))) IN
    IF title.st = "raise" THEN Raised(title.exc)
    ELSE IF pd.media_k \in {"absent", "null"} \/ (pd.media_k = "list" /\ pd.media = <<>>)
    THEN Skipped
    ELSE IF pd.media_k # "list" THEN Raised("TypeError")
    ELSE
    LET ts == ResolveTimestamp(pd) IN
    IF ts.st = "raise" THEN Raised(ts.exc)
    ELSE
    LET date == Json_format_timestamp(ts.v, offset) IN
    IF date.st = "raise" THEN Raised(date.exc)
    ELSE
    LET scan == MediaScan(pd.media, 1,
                    [title |-> title.v, images |-> <<>>, latitude |-> None,
                     longitude |-> None, exc |-> ""])
    IN
    IF scan.exc # "" THEN Raised(scan.exc)
    ELSE IF scan.images = <<>> THEN Skipped
    ELSE
    LET h == Json_extract_hashtags(scan.title) IN
    [st |-> "post", exc |-> "",
     post |-> [title |-> h.clean, images |-> scan.images, date |-> date.v,
               timestamp |-> ts.v.n, latitude |-> scan.latitude,
               longitude |-> scan.longitude, tagged_users |-> <<>>,
               hashtags |-> h.tags, cls |-> "json", rec |-> rec]]

\* an insertion that places p before the elements with an equal timestamp
RECURSIVE InsertDescUnstable(_, _)
InsertDescUnstable(sorted, p) ==
    IF sorted = <<>> THEN <<p>>
    ELSE IF Head(sorted).timestamp > p.timestamp
         THEN <<Head(sorted)>> \o InsertDescUnstable(Tail(sorted), p)
         ELSE <<p>> \o sorted

\* list.sort(key=lambda p: p.timestamp, reverse=True): a stable sort, so p is
\* placed after every element whose timestamp is at least its own
RECURSIVE InsertDesc(_, _)
InsertDesc(sorted, p) ==
    IF sorted = <<>> THEN <<p>>
    ELSE IF Head(sorted).timestamp >= p.timestamp
         THEN <<Head(sorted)>> \o InsertDesc(Tail(sorted), p)
         ELSE <<p>> \o sorted

RECURSIVE SortDescFrom(_, _, _)
SortDescFrom(ps, i, sorted) ==
    IF i > Len(ps) THEN sorted
    ELSE SortDescFrom(ps, i + 1, InsertDesc(sorted, ps[i]))

SortByTimestampDesc(ps) == SortDescFrom(ps, 1, <<>>)

\* the loop of parse_posts (lines 78-82) from record i: [exc, posts]
RECURSIVE ParseLoop(_, _, _, _)
ParseLoop(records, i, acc, offset) ==
    IF i > Len(records) THEN [exc |-> "", posts |-> acc]
    ELSE LET r == Json_parse_post(records[i], i, offset) IN
         IF r.st = "raise" THEN [exc |-> r.exc, posts |-> <<>>]
         ELSE ParseLoop(records, i + 1,
                        IF r.st = "post" THEN Append(acc, r.post) ELSE acc, offset)

\* InstagramJSONParser.parse_posts(): [exc, posts]
Json_parse_posts(exists, file, offset) ==
    IF ~exists THEN [exc |-> "FileNotFoundError", posts |-> <<>>]
    ELSE IF file.k = "malformed" THEN [exc |-> "JSONDecodeError", posts |-> <<>>]
    ELSE LET r == ParseLoop(file.records, 1, <<>>, offset) IN
         IF r.exc # "" THEN r
         ELSE [exc |-> "", posts |-> SortByTimestampDesc(r.posts)]


-----------------------------------------------------------------------------
(* InstagramParser (the markup export) *)

\* float(value): [ok, n]; the cell text is numeric or not
ParseFloat(value) == [ok |-> value.numeric, n |-> value.n]

\* the table-row scan (lines 77-99) from row i: every row labelled exactly
\* "Latitude" / "Longitude" with a non-empty numeric value assigns
RECURSIVE RowScan(_, _, _)
RowScan(rows, i, acc) ==
    IF i > Len(rows) THEN acc
    ELSE LET r == rows[i]
             f == ParseFloat(r.value)
         IN  RowScan(rows, i + 1,
                 IF r.label = "Latitude" /\ ~r.value.empty /\ f.ok
                 THEN [acc EXCEPT !.latitude = Num(f.n)]
                 ELSE IF r.label = "Longitude" /\ ~r.value.empty /\ f.ok
                 THEN [acc EXCEPT !.longitude = Num(f.n)]
                 ELSE acc)

\* "src = img.get('src'); if src: images.append(src)" over the img tags
RECURSIVE ImgSources(_)
ImgSources(imgs) ==
    IF imgs = <<>> THEN <<>>
    ELSE (IF Truthy(Head(imgs)) THEN <<Head(imgs).s>> ELSE <<>>) \o ImgSources(Tail(imgs))

\* a _parse_post_div that keeps only blocks with an image, as the
\* structured-data path does
HtmlDropWithoutImages(div, rec) ==
    LET images == ImgSources(div.imgs)
        loc    == RowScan(div.rows, 1, [latitude |-> None, longitude |-> None])
    IN  IF images = <<>> THEN Skipped
        ELSE [st |-> "post", exc |-> "",
              post |-> [title |-> Str(div.title), images |-> images,
                        date |-> div.date, timestamp |-> 0,
                        latitude |-> loc.latitude, longitude |-> loc.longitude,
                        tagged_users |-> <<>>, hashtags |-> <<>>,
                        cls |-> "html", rec |-> rec]]

\* _parse_post_div(post_div) for block number rec of the document
Html_parse_post_div(div, rec) ==
    LET images == ImgSources(div.imgs)
        loc    == RowScan(div.rows, 1, [latitude |-> None, longitude |-> None])
    IN  IF images = <<>> /\ div.title = <<>> THEN Skipped
        ELSE [st |-> "post", exc |-> "",
              post |-> [title |-> Str(div.title), images |-> images,
                        date |-> div.date, timestamp |-> 0,
                        latitude |-> loc.latitude, longitude |-> loc.longitude,
                        tagged_users |-> <<>>, hashtags |-> <<>>,
                        cls |-> "html", rec |-> rec]]

RECURSIVE DivLoop(_, _, _)
DivLoop(divs, i, acc) ==
    IF i > Len(divs) THEN acc
    ELSE LET r == Html_parse_post_div(divs[i], i) IN
         DivLoop(divs, i + 1, IF r.st = "post" THEN Append(acc, r.post) ELSE acc)

\* InstagramParser.parse_posts(): [exc, posts], in document order
Html_parse_posts(exists, doc) ==
    IF ~exists THEN [exc |-> "FileNotFoundError", posts |-> <<>>]
    ELSE [exc |-> "", posts |-> DivLoop(doc, 1, <<>>)]

-----------------------------------------------------------------------------
(* SiteGenerator and RSSGenerator, as far as main's outputs go *)

\* Path(p).name
PathName(p) == p[Len(p)]

\* the loop of _copy_post_images over post.images from index i:
\* [imgs: site/images afterwards, paths: new_image_paths]
RECURSIVE CopyLoop(_, _, _, _)
CopyLoop(images, i, exist, acc) ==
    IF i > Len(images) THEN acc
    ELSE LET src  == images[i]
             name == PathName(src)
         IN  IF src \notin exist THEN CopyLoop(images, i + 1, exist, acc)
             ELSE CopyLoop(images, i + 1, exist,
                      [imgs  |-> IF \E f \in acc.imgs : f.name = name
                                 THEN acc.imgs
                                 ELSE acc.imgs \cup {[name |-> name, src |-> src]},
                       paths |-> Append(acc.paths, <<"..", "images", name>>)])

\* "for post in posts: self._copy_post_images(post, parser)" from post i:
\* [imgs, posts] with every post's images replaced
RECURSIVE CopyAll(_, _, _, _)
CopyAll(ps, i, exist, imgs) ==
    IF i > Len(ps) THEN [imgs |-> imgs, posts |-> ps]
    ELSE LET r == CopyLoop(ps[i].images, 1, exist, [imgs |-> imgs, paths |-> <<>>]) IN
         CopyAll([ps EXCEPT ![i].images = r.paths], i + 1, exist, r.imgs)

\* _generate_post_page(post, idx): the file posts/post-(idx+1).html
PostPage(post, idx) ==
    [post_id |-> idx + 1, rec |-> post.rec, images |-> post.images,
     hashtags |-> post.hashtags]

\* The first timestamp whose local year has four digits: strftime's %Y
\* writes an earlier year with fewer digits, and strptime's %Y then fails.
Year1000Ts == -480

\* the empty string as a publication date
NoPubDate == EmptyDate

\* RSSGenerator._parse_date(date_str): '' for an empty or unparsable string,
\* else the date and time read from the string, written as RFC 822 with the
\* zone "+0000": k = "rfc822", minute the minutes since the epoch it denotes
Rss_parse_date(date) ==
    IF date.k # "fmt" THEN NoPubDate
    ELSE IF date.minute * 60 < Year1000Ts THEN NoPubDate
    ELSE [k |-> "rfc822", minute |-> date.minute]

\* RSSGenerator._add_item(channel, post, idx)
FeedItem(post, idx) ==
    [link |-> idx + 1, guid |-> idx + 1, rec |-> post.rec,
     pubDate |-> Rss_parse_date(post.date),
     images |-> [j \in DOMAIN post.images |-> PathName(post.images[j])],
     categories |-> post.hashtags]

-----------------------------------------------------------------------------
(* generate_site.main *)

\* sorted(set(indices)): ascending, duplicates removed
RECURSIVE SortedSet(_)
SortedSet(S) ==
    IF S = {} THEN <<>>
    ELSE LET m == CHOOSE x \in S : \A y \in S : x <= y IN <<m>> \o SortedSet(S \ {m})

\* posts[i] of a list of n elements: the 1-based position, 0 for IndexError
PyIndex(i, n) == IF 0 <= i /\ i < n THEN i + 1
                 ELSE IF i < 0 /\ i >= -n THEN n + i + 1
                 ELSE 0

\* "[posts[i] for i in sorted(selected_indices) if i < len(posts)]" from
\* position j of the sorted indices: [exc, refs]
RECURSIVE SelectFrom(_, _, _)
SelectFrom(idx, j, n) ==
    IF j > Len(idx) THEN [exc |-> "", refs |-> <<>>]
    ELSE IF ~(idx[j] < n) THEN SelectFrom(idx, j + 1, n)
    ELSE IF PyIndex(idx[j], n) = 0 THEN [exc |-> "IndexError", refs |-> <<>>]
    ELSE LET r == SelectFrom(idx, j + 1, n) IN
         [exc |-> r.exc,
          refs |-> IF r.exc = "" THEN <<PyIndex(idx[j], n)>> \o r.refs ELSE <<>>]

AllRefs(n) == [j \in 1..n |-> j]

\* a load that ignores the file
SelectedPostsAll(file, n) == [exc |-> "", refs |-> AllRefs(n)]

\* lines 56-71: the list handed to the feed, [exc, refs]
SelectedPosts(file, n) ==
    IF file.exists
    THEN LET selected_indices == SeqToSet(file.items) IN
         IF selected_indices # {}
         THEN SelectFrom(SortedSet(selected_indices), 1, n)
         ELSE [exc |-> "", refs |-> AllRefs(n)]
    ELSE [exc |-> "", refs |-> AllRefs(n)]

Exit(status) == /\ pc' = "exit"
                /\ exit_status' = status

\* a detection that tests the markup file first
DetectFormatHtmlFirst ==
    /\ pc = "start"
    /\ IF ~exportExists
       THEN Exit(1) /\ UNCHANGED parser
       ELSE IF htmlExists
       THEN pc' = "parse" /\ parser' = "html" /\ UNCHANGED exit_status
       ELSE IF jsonExists
       THEN pc' = "parse" /\ parser' = "json" /\ UNCHANGED exit_status
       ELSE Exit(1) /\ UNCHANGED parser
    /\ UNCHANGED <<posts, selected_posts, fsVars, siteVars, textVars, utilVars, toolVars>>

\* lines 21-39: the export directory test and the format detection
DetectFormat ==
    /\ pc = "start"
    /\ IF ~exportExists
       THEN Exit(1) /\ UNCHANGED parser
       ELSE IF jsonExists
       THEN pc' = "parse" /\ parser' = "json" /\ UNCHANGED exit_status
       ELSE IF htmlExists
       THEN pc' = "parse" /\ parser' = "html" /\ UNCHANGED exit_status
       ELSE Exit(1) /\ UNCHANGED parser
    /\ UNCHANGED <<posts, selected_posts, fsVars, siteVars, textVars, utilVars, toolVars>>

\* parser.parse_posts() of the parser main holds
ParserResult ==
    IF parser = "json" THEN Json_parse_posts(jsonExists, data, tz)
    ELSE Html_parse_posts(htmlExists, htmlDoc)

\* lines 41-53: parse; any exception and an empty list end the run
ParsePosts ==
    /\ pc = "parse"
    /\ LET r == ParserResult IN
       IF r.exc # "" \/ r.posts = <<>>
       THEN Exit(1) /\ UNCHANGED posts
       ELSE pc' = "select" /\ posts' = r.posts /\ UNCHANGED exit_status
    /\ UNCHANGED <<parser, selected_posts, fsVars, siteVars, textVars, utilVars, toolVars>>

\* lines 55-71: the selection file; an IndexError is not caught
LoadSelection ==
    /\ pc = "select"
    /\ LET r == SelectedPosts(selectionFile, Len(posts)) IN
       IF r.exc # ""
       THEN Exit(1) /\ UNCHANGED selected_posts
       ELSE pc' = "generator" /\ selected_posts' = r.refs /\ UNCHANGED exit_status
    /\ UNCHANGED <<parser, posts, fsVars, siteVars, textVars, utilVars, toolVars>>

\* line 74, SiteGenerator.__init__: the three mkdir(exist_ok=True)
MakeGenerator ==
    /\ pc = "generator"
    /\ pc' = "copy"
    /\ siteDirs' = siteDirs \cup {"site", "site/posts", "site/images"}
    /\ UNCHANGED <<exit_status, parser, posts, selected_posts, fsVars, siteImages,
                   pages, indexWritten, feed, feedWritten, textVars, utilVars, toolVars>>

\* generate_site lines 32-34: copy the images of every post
CopyImages ==
    /\ pc = "copy"
    /\ LET r == CopyAll(posts, 1, exportImages, siteImages) IN
       /\ posts' = r.posts
       /\ siteImages' = r.imgs
    /\ pc' = "pages"
    /\ UNCHANGED <<exit_status, parser, selected_posts, fsVars, siteDirs, pages,
                   indexWritten, feed, feedWritten, textVars, utilVars, toolVars>>

\* generate_site lines 36-38: one page per post of the full list
GeneratePostPages ==
    /\ pc = "pages"
    /\ pages' = [j \in 1..Len(posts) |-> PostPage(posts[j], j - 1)]
    /\ pc' = "index"
    /\ UNCHANGED <<exit_status, parser, posts, selected_posts, fsVars, siteDirs,
                   siteImages, indexWritten, feed, feedWritten, textVars, utilVars, toolVars>>

\* generate_site lines 40-41
GenerateIndexPage ==
    /\ pc = "index"
    /\ indexWritten' = TRUE
    /\ pc' = "feed"
    /\ UNCHANGED <<exit_status, parser, posts, selected_posts, fsVars, siteDirs,
                   siteImages, pages, feed, feedWritten, textVars, utilVars, toolVars>>

\* generate_site lines 43-46 and RSSGenerator.generate_feed: one item per
\* element of rss_posts, numbered by its position in that list
GenerateFeed ==
    /\ pc = "feed"
    /\ feed' = [j \in 1..Len(selected_posts) |-> FeedItem(posts[selected_posts[j]], j - 1)]
    /\ feedWritten' = TRUE
    /\ pc' = "done"
    /\ UNCHANGED <<exit_status, parser, posts, selected_posts, fsVars, siteDirs,
                   siteImages, pages, indexWritten, textVars, utilVars, toolVars>>

\* lines 77-88: main returns
Finish ==
    /\ pc = "done"
    /\ Exit(0)
    /\ UNCHANGED <<parser, posts, selected_posts, fsVars, siteVars, textVars, utilVars, toolVars>>


-----------------------------------------------------------------------------
(* select_posts.py: the selection tool, from the mode prompt of its main on *)

\* what a step of the tool leaves alone besides its own variables and the file
toolFrame == <<exportExists, jsonExists, htmlExists, data, htmlDoc, exportImages,
               tz, mainVars, siteVars, textVars, utilVars>>

\* load_selection(selection_file)
Tool_load_selection(file) == IF file.exists THEN SeqToSet(file.items) ELSE {}

\* the content save_selection(selection_file, selected_indices) writes
Tool_save_selection(sel) == [exists |-> TRUE, items |-> SortedSet(sel)]

\* "for idx, post in enumerate(posts): if idx in selected: continue": the
\* first idx >= from outside sel, Len(posts) when the loop runs out
NextUnreviewed(from, sel) ==
    IF \E i \in from..(Len(posts) - 1) : i \notin sel
    THEN CHOOSE i \in from..(Len(posts) - 1) :
             i \notin sel /\ \A j \in from..(i - 1) : j \in sel
    ELSE Len(posts)

\* post.title[:100] of display_post_preview and post.title[:60] of option 7
\* need a str
Sliceable(post) == post.title.k = "str"

\* the year the tool reads out of a date: the text after the first comma.
\* The model's calendar is scaled, a year lasting two minutes; -1 stands
\* for "no comma in the date".
YearOf(date) == IF date.k = "fmt" THEN date.minute \div 2 ELSE -1

PostYears == {YearOf(posts[j].date) : j \in DOMAIN posts}

\* the indices of the posts that satisfy a filter
WithYearIn(Y)   == {j - 1 : j \in {k \in DOMAIN posts : YearOf(posts[k].date) \in Y}}
WithHashtags    == {j - 1 : j \in {k \in DOMAIN posts : posts[k].hashtags # <<>>}}
WithLocation    ==
    {j - 1 : j \in {k \in DOMAIN posts :
                        Truthy(posts[k].latitude) /\ Truthy(posts[k].longitude)}}

\* the loop of interactive_selection from index from, with the in-memory
\* set sel and the file content file, after command c: it stops at the
\* prompt for the next unreviewed post, or runs out and saves (lines 93-96);
\* display_post_preview raises TypeError on a title that is not a str
Advance(sel, from, file, c) ==
    LET i == NextUnreviewed(from, sel) IN
    /\ selected' = sel
    /\ cursor' = i
    /\ cmd' = c
    /\ IF i = Len(posts)
       THEN spc' = "returned" /\ selectionFile' = Tool_save_selection(sel)
       ELSE IF ~Sliceable(posts[i + 1])
       THEN spc' = "crashed" /\ selectionFile' = file
       ELSE spc' = "interactive" /\ selectionFile' = file
    /\ UNCHANGED toolFrame

\* a step that changes the in-memory set only
Select(sel, c) ==
    /\ selected' = sel
    /\ cmd' = c
    /\ UNCHANGED <<spc, cursor, selectionFile, toolFrame>>

\* a step that ends the tool, with or without writing the file
Leave(how, file, c) ==
    /\ spc' = how
    /\ cmd' = c
    /\ selectionFile' = file
    /\ UNCHANGED <<selected, cursor, toolFrame>>

\* main lines 285-293: the mode prompt
ChooseMode ==
    /\ spc = "mode"
    /\ \E mode \in {"1", "2", "x"} :
          CASE mode = "1" -> /\ spc' = "bulk"
                             /\ selected' = Tool_load_selection(selectionFile)
                             /\ cmd' = "mode 1"
                             /\ UNCHANGED <<cursor, selectionFile, toolFrame>>
            [] mode = "2" -> Advance(Tool_load_selection(selectionFile), 0,
                                     selectionFile, "mode 2")
            [] OTHER      -> Leave("invalid", selectionFile, "mode x")

\* interactive_selection, 'y' / 'yes'
InteractiveYes ==
    /\ spc = "interactive"
    /\ Advance(selected \cup {cursor}, cursor + 1, selectionFile, "y")

\* 'n' / 'no'
InteractiveNo ==
    /\ spc = "interactive"
    /\ Advance(selected, cursor + 1, selectionFile, "n")

\* 's' / 'skip'
InteractiveSkip ==
    /\ spc = "interactive"
    /\ Advance(selected, cursor + 1, selectionFile, "s")

\* 'd' / 'done': save and return
InteractiveDone ==
    /\ spc = "interactive"
    /\ Leave("returned", Tool_save_selection(selected), "d")

\* a quit that saves first
InteractiveQuitSaving ==
    /\ spc = "interactive"
    /\ Leave("quit", Tool_save_selection(selected), "q")

\* 'q' / 'quit': sys.exit(0)
InteractiveQuit ==
    /\ spc = "interactive"
    /\ Leave("quit", selectionFile, "q")

\* 'stats': show_statistics indexes posts with every selected i < len(posts)
InteractiveStats ==
    /\ spc = "interactive"
    /\ IF \E i \in selected : i < Len(posts) /\ PyIndex(i, Len(posts)) = 0
       THEN Leave("crashed", selectionFile, "stats")
       ELSE Select(selected, "stats")

\* any other input
InteractiveInvalid ==
    /\ spc = "interactive"
    /\ Select(selected, "invalid")

\* bulk_selection, option 1: all posts
BulkSelectAll ==
    /\ spc = "bulk"
    /\ Select(0..(Len(posts) - 1), "1")

\* option 2: the posts of the years entered
BulkSelectYears ==
    /\ spc = "bulk"
    /\ \E Y \in SUBSET PostYears : Select(selected \cup WithYearIn(Y), "2")

\* option 3: the posts with hashtags
BulkSelectHashtags ==
    /\ spc = "bulk"
    /\ Select(selected \cup WithHashtags, "3")

\* option 4: the posts with a location
BulkSelectLocation ==
    /\ spc = "bulk"
    /\ Select(selected \cup WithLocation, "4")

\* option 5: the posts of a range of years; a date without comma counts as
\* the empty string, which only an empty "From year" reaches
BulkSelectRange ==
    /\ spc = "bulk"
    /\ \E start_year, end_year \in PostYears \cup {-1} :
          Select(selected \cup WithYearIn({y \in PostYears :
                                              start_year <= y /\ y <= end_year}), "5")

\* option 6: clear, after confirmation
BulkClear ==
    /\ spc = "bulk"
    /\ \E confirm \in BOOLEAN : Select(IF confirm THEN {} ELSE selected, "6")

\* option 7: view; posts[idx] and post.title[:60] for the selected indices
BulkView ==
    /\ spc = "bulk"
    /\ IF \E i \in selected :
             \/ PyIndex(i, Len(posts)) = 0
             \/ ~Sliceable(posts[PyIndex(i, Len(posts))])
       THEN Leave("crashed", selectionFile, "7")
       ELSE Select(selected, "7")

\* option 8: save, then interactive_selection (which loads the file again)
BulkSaveInteractive ==
    /\ spc = "bulk"
    /\ Advance(Tool_load_selection(Tool_save_selection(selected)), 0,
               Tool_save_selection(selected), "8")

\* option 9: save and return
BulkSaveExit ==
    /\ spc = "bulk"
    /\ Leave("returned", Tool_save_selection(selected), "9")

\* option 0: sys.exit(0)
BulkExit ==
    /\ spc = "bulk"
    /\ Leave("quit", selectionFile, "0")

\* any other input
BulkInvalid ==
    /\ spc = "bulk"
    /\ Select(selected, "invalid")

-----------------------------------------------------------------------------
(* Export contents *)

Rec(title, ts, media) ==
    [kind |-> "obj", title |-> title, creation_timestamp |-> ts,
     media_k |-> "list", media |-> media]

Item(title, uri, ts, exif_k, exif) ==
    [kind |-> "obj", title |-> title, uri |-> uri, creation_timestamp |-> ts,
     mm_k |-> IF exif_k = "none" THEN "absent" ELSE "obj",
     pm_k |-> IF exif_k = "none" THEN "absent" ELSE "obj",
     exif_k |-> IF exif_k = "none" THEN "absent" ELSE exif_k,
     exif |-> exif]

Exif(lat, lon) == [kind |-> "obj", latitude |-> lat, longitude |-> lon]

Uri(dir, name) == Str(<<dir, name>>)
PlainItem(uri) == Item(Absent, uri, Absent, "none", <<>>)

ArrayFile(records) == [k |-> "array", records |-> records]
MalformedFile      == [k |-> "malformed", records |-> <<>>]

TitleRec  == <<"A", " ", "#", "a">>
TitleM1   == <<"a">>
TitleM2   == <<"b", " ", "#", "B">>
TitleMoji == <<Latin1Lead, Latin1Cont>>

GoodRecord == Rec(Str(<<"B">>), Num(30), <<PlainItem(Uri("media", "z.jpg"))>>)

\* one record whose titles and URIs vary, alone or before a good record
ScanItems ==
    {Item(t, u, Absent, "none", <<>>) :
        t \in {Absent, Str(<<>>), Str(TitleM1), Str(TitleM2)},
        u \in {Absent, Str(<<>>), Uri("media", "a.jpg"), Uri("media", "b.jpg")}}

ScanRecords ==
    {Rec(t, Num(90), m) :
        t \in {Absent, None, Str(<<>>), Str(TitleRec), Str(TitleMoji)},
        m \in SeqsUpTo(ScanItems, MaxMedia)}

ScanFiles ==
    {ArrayFile(<<r>> \o rest) : r \in ScanRecords, rest \in {<<>>, <<GoodRecord>>}}

\* one record whose EXIF entries vary
GeoEntries ==
    {Exif(Num(1), Absent), Exif(Num(2), Num(6)), Exif(Num(0), Num(5))}

GeoItems ==
    {Item(Absent, Uri("media", "a.jpg"), Absent, "list", e) :
        e \in SeqsUpTo(GeoEntries, MaxExif)}

GeoFiles ==
    {ArrayFile(<<Rec(Absent, Num(90), m)>>) :
        m \in SeqsUpTo(GeoItems, MaxMedia) \ {<<>>}}

\* batches of well-formed records whose timestamps vary
BatchRecords ==
    { Rec(Absent, ts, <<PlainItem(Uri("media", "a.jpg"))>>) :
        ts \in {Absent, Num(30), Num(90), Num(-30), Num(1500)} }
    \cup { Rec(Absent, Absent, <<Item(Absent, Uri("media", "a.jpg"), Num(30), "none", <<>>)>>),
           Rec(Str(TitleRec), Num(30), <<>>) }

BatchFiles == {ArrayFile(rs) : rs \in SeqsUpTo(BatchRecords, MaxRecords)}

\* records with one malformed part each
NonObject == [kind |-> "other", title |-> Absent, creation_timestamp |-> Absent,
              media_k |-> "absent", media |-> <<>>]
NonObjectItem == [PlainItem(Absent) EXCEPT !.kind = "other"]
NonObjectExif == [Exif(Absent, Absent) EXCEPT !.kind = "other"]
ImgItem == PlainItem(Uri("media", "a.jpg"))

MalformedRecords ==
    { NonObject,
      Rec(Num(5), Num(30), <<ImgItem>>),
      Rec(Absent, Str(<<"a">>), <<ImgItem>>),
      Rec(Absent, Num(2500), <<ImgItem>>),
      Rec(Absent, Num(-2500), <<ImgItem>>),
      [Rec(Absent, Num(30), <<>>) EXCEPT !.media_k = "other"],
      Rec(Absent, Num(30), <<NonObjectItem>>),
      Rec(Absent, Absent, <<NonObjectItem>>),
      Rec(Absent, Num(30), <<[ImgItem EXCEPT !.title = Num(5)]>>),
      Rec(Absent, Num(30), <<[ImgItem EXCEPT !.mm_k = "null"]>>),
      Rec(Absent, Num(30), <<[ImgItem EXCEPT !.mm_k = "obj", !.pm_k = "null"]>>),
      Rec(Absent, Num(30),
          <<[ImgItem EXCEPT !.mm_k = "obj", !.pm_k = "obj", !.exif_k = "null"]>>),
      Rec(Absent, Num(30), <<Item(Absent, Uri("media", "a.jpg"), Absent, "list",
                                  <<NonObjectExif>>)>>) }

OtherGood == Rec(Absent, Num(90), <<PlainItem(Uri("media", "y.jpg"))>>)

MalformedBatches ==
    {ArrayFile(pre \o <<bad>> \o post) :
        pre \in {<<>>, <<GoodRecord>>}, bad \in MalformedRecords,
        post \in {<<>>, <<OtherGood>>}}

\* post blocks of the markup export
Cell(text_empty, numeric, n) == [empty |-> text_empty, numeric |-> numeric, n |-> n]
Row(label, value) == [label |-> label, value |-> value]
Div(title, date, imgs, rows) ==
    [title |-> title, date |-> date, imgs |-> imgs, rows |-> rows]

HtmlDivs ==
    { Div(<<"a">>, FormattedDate(90, 0), <<Str(<<"media", "a.jpg">>)>>, <<>>),
      Div(<<"b", " ", "#", "B">>, EmptyDate, <<>>,
          <<Row("Latitude", Cell(FALSE, TRUE, 4)), Row("Longitude", Cell(FALSE, FALSE, 0))>>),
      Div(<<>>, OtherDate, <<None, Str(<<>>)>>, <<Row("latitude", Cell(FALSE, TRUE, 4))>>),
      Div(<<>>, FormattedDate(30, 0), <<Str(<<"other", "a.jpg">>), Str(<<"media", "c.jpg">>)>>,
          <<Row("Latitude", Cell(FALSE, TRUE, 4)), Row("Latitude", Cell(FALSE, TRUE, 7)),
            Row("Longitude", Cell(TRUE, FALSE, 0))>>) }

HtmlDocs == SeqsUpTo(HtmlDivs, MaxMedia)

AllImages == {<<"media", "a.jpg">>, <<"media", "b.jpg">>, <<"other", "a.jpg">>,
              <<"media", "c.jpg">>, <<"media", "z.jpg">>, <<"media", "y.jpg">>}

ImageSets == {AllImages, AllImages \ {<<"media", "c.jpg">>}}

\* exports of the full run: a few records, most of their variety in the
\* selection file
MainRecords ==
    { Rec(Str(TitleRec), Num(30),
          <<PlainItem(Uri("media", "a.jpg")), PlainItem(Uri("media", "b.jpg"))>>),
      Rec(Absent, Num(90), <<PlainItem(Uri("other", "a.jpg"))>>),
      Rec(Absent, Num(30), <<PlainItem(Uri("media", "c.jpg"))>>) }

MainFiles ==
    {MalformedFile} \cup {ArrayFile(rs) : rs \in SeqsUpTo(MainRecords, MaxRecords)}

NoSelection == [exists |-> FALSE, items |-> <<>>]
SelIndices  == {-MaxRecords - 1, -1, 0, 1, MaxRecords}
SelectionFiles ==
    {NoSelection} \cup {[exists |-> TRUE, items |-> a] : a \in SeqsUpTo(SelIndices, MaxSel)}

\* seconds the local time is ahead of UTC: whole minutes
LocalOffsets == {-60, 0, 120}

NoFile == ArrayFile(<<>>)

-----------------------------------------------------------------------------
(* Specifications *)

IdleText ==
    /\ tpc = "idle"
    /\ text = <<>>
    /\ run1 = [clean |-> <<>>, tags |-> <<>>]
    /\ run2 = [clean |-> <<>>, tags |-> <<>>]
    /\ rssTags = <<>>

IdleUtil ==
    /\ feedTitle = <<>>
    /\ pageTitle = <<>>
    /\ stamp = 0
    /\ dateStr = EmptyDate
    /\ pubDate = EmptyDate

IdleTool ==
    /\ spc = "idle"
    /\ selected = {}
    /\ cursor = 0
    /\ cmd = ""

NoOutput ==
    /\ siteDirs = {}
    /\ siteImages = {}
    /\ pages = <<>>
    /\ indexWritten = FALSE
    /\ feed = <<>>
    /\ feedWritten = FALSE

\* the state at the start of generate_site.main: every combination of the
\* three existence tests on a fixed small export, and runs on a structured-data
\* or a markup export whose content and selection file vary
Init ==
    /\ pc = "start"
    /\ exit_status = -1
    /\ parser = "none"
    /\ posts = <<>>
    /\ selected_posts = <<>>
    /\ NoOutput
    /\ IdleText
    /\ IdleUtil
    /\ IdleTool
    /\ tz = 0
    /\ \/ /\ exportExists \in BOOLEAN
          /\ jsonExists \in BOOLEAN
          /\ htmlExists \in BOOLEAN
          /\ (~exportExists => ~jsonExists /\ ~htmlExists)
          /\ data = (IF jsonExists THEN ArrayFile(<<GoodRecord>>) ELSE NoFile)
          /\ htmlDoc \in (IF htmlExists THEN HtmlDocs ELSE {<<>>})
          /\ exportImages = AllImages
          /\ selectionFile = NoSelection
       \/ /\ exportExists = TRUE
          /\ jsonExists = TRUE
          /\ htmlExists = FALSE
          /\ data \in MainFiles
          /\ htmlDoc = <<>>
          /\ exportImages \in ImageSets
          /\ selectionFile \in SelectionFiles

Next ==
    \/ DetectFormat
    \/ ParsePosts
    \/ LoadSelection
    \/ MakeGenerator
    \/ CopyImages
    \/ GeneratePostPages
    \/ GenerateIndexPage
    \/ GenerateFeed
    \/ Finish

Spec == Init /\ [][Next]_vars

\* the state of main after the format detection, on varied export content
InitParse ==
    /\ pc = "parse"
    /\ exit_status = -1
    /\ posts = <<>>
    /\ selected_posts = <<>>
    /\ NoOutput
    /\ IdleText
    /\ IdleUtil
    /\ IdleTool
    /\ exportExists = TRUE
    /\ exportImages = AllImages
    /\ selectionFile = NoSelection
    /\ \/ /\ parser = "json"
          /\ jsonExists = TRUE
          /\ htmlExists \in BOOLEAN
          /\ htmlDoc = <<>>
          /\ \/ data \in ScanFiles \cup GeoFiles \cup MalformedBatches /\ tz = 0
             \/ data \in BatchFiles /\ tz \in LocalOffsets
       \/ /\ parser = "html"
          /\ jsonExists = FALSE
          /\ htmlExists = TRUE
          /\ data = NoFile
          /\ htmlDoc \in HtmlDocs
          /\ tz = 0

SpecParse == InitParse /\ [][ParsePosts]_vars

\* the text utilities alone: every text of at most MaxLen characters
HashChars == {"#", " ", "a", "A", "b"}

IdleRun ==
    /\ pc = "idle"
    /\ exit_status = -1
    /\ parser = "none"
    /\ posts = <<>>
    /\ selected_posts = <<>>
    /\ exportExists = FALSE
    /\ jsonExists = FALSE
    /\ htmlExists = FALSE
    /\ data = NoFile
    /\ htmlDoc = <<>>
    /\ exportImages = {}
    /\ selectionFile = NoSelection
    /\ NoOutput

IdleMain == IdleRun /\ tz = 0

InitHashtags ==
    /\ IdleMain
    /\ IdleUtil
    /\ IdleTool
    /\ tpc = "input"
    /\ text \in SeqsUpTo(HashChars, MaxLen)
    /\ run1 = [clean |-> <<>>, tags |-> <<>>]
    /\ run2 = [clean |-> <<>>, tags |-> <<>>]
    /\ rssTags = <<>>

\* clean_title, hashtags = self._extract_hashtags(text), and the feed's
\* _extract_hashtags(text)
ExtractFirst ==
    /\ tpc = "input"
    /\ run1' = ExtractHashtagsStr(text)
    /\ rssTags' = Rss_extract_hashtags(text)
    /\ tpc' = "once"
    /\ UNCHANGED <<text, run2, fsVars, mainVars, siteVars, utilVars, toolVars>>

\* _extract_hashtags applied to the cleaned text of the first run
ExtractAgain ==
    /\ tpc = "once"
    /\ run2' = ExtractHashtagsStr(run1.clean)
    /\ tpc' = "twice"
    /\ UNCHANGED <<text, run1, rssTags, fsVars, mainVars, siteVars, utilVars, toolVars>>

NextHashtags == ExtractFirst \/ ExtractAgain

SpecHashtags == InitHashtags /\ [][NextHashtags]_vars

\* the title truncations alone: long runs of "a" with a few marks in them
MarkChars == {".", "!", "?", ",", " "}
MarkPositions == {5, MinCut - 1, MinCut, 30, PageLimit - 1, PageLimit, PageLimit + 1,
                  FeedLimit - 1, FeedLimit}
TitleLengths == {PageLimit, PageLimit + 1, 90, FeedLimit + 1, 150}

\* marks: a set of [pos, c], c placed at the 0-based position pos and, unless
\* another mark sits there, a space after it
TitleText(len, marks) ==
    [i \in 1..len |->
        IF \E m \in marks : m.pos = i - 1
        THEN (CHOOSE m \in marks : m.pos = i - 1).c
        ELSE IF \E m \in marks : m.pos = i - 2 THEN " "
        ELSE "a"]

\* the sets of at most n marks
RECURSIVE MarksUpTo(_)
MarksUpTo(n) ==
    IF n = 0 THEN {{}}
    ELSE LET S == MarksUpTo(n - 1) IN
         S \cup {ms \cup {m} : ms \in S, m \in [pos : MarkPositions, c : MarkChars]}

MarkSets ==
    {ms \in MarksUpTo(MaxMarks) : \A m1, m2 \in ms : m1.pos = m2.pos => m1 = m2}

TitleTexts == {TitleText(len, ms) : len \in TitleLengths, ms \in MarkSets}

InitTitles ==
    /\ IdleMain
    /\ IdleTool
    /\ tpc = "input"
    /\ text \in TitleTexts
    /\ run1 = [clean |-> <<>>, tags |-> <<>>]
    /\ run2 = [clean |-> <<>>, tags |-> <<>>]
    /\ rssTags = <<>>
    /\ IdleUtil

\* title = self._truncate_title(full_title, max_length=100) of _add_item
TruncateFeedTitle ==
    /\ tpc = "input"
    /\ feedTitle' = Rss_truncate_title(text, FeedLimit)
    /\ tpc' = "feed_title"
    /\ UNCHANGED <<text, run1, run2, rssTags, pageTitle, stamp, dateStr, pubDate,
                   fsVars, mainVars, siteVars, toolVars>>

\* title = self._truncate_title(full_text, max_length=60) of _generate_post_page
TruncatePageTitle ==
    /\ tpc = "feed_title"
    /\ pageTitle' = Site_truncate_title(text, PageLimit)
    /\ tpc' = "page_title"
    /\ UNCHANGED <<text, run1, run2, rssTags, feedTitle, stamp, dateStr, pubDate,
                   fsVars, mainVars, siteVars, toolVars>>

NextTitles == TruncateFeedTitle \/ TruncatePageTitle

SpecTitles == InitTitles /\ [][NextTitles]_vars

\* the date utilities alone: every timestamp around the thresholds of
\* datetime.fromtimestamp, on machines in different time zones
Stamps == (YearMinTs - 1)..(YearMaxTs + 1) \cup {TimeTMin - 1, TimeTMax + 1}

InitDates ==
    /\ IdleRun
    /\ IdleText
    /\ IdleTool
    /\ tz \in LocalOffsets
    /\ stamp \in Stamps
    /\ feedTitle = <<>>
    /\ pageTitle = <<>>
    /\ dateStr = EmptyDate
    /\ pubDate = NoPubDate

\* date_str = self._format_timestamp(timestamp) of _parse_post
FormatStamp ==
    /\ tpc = "idle"
    /\ LET r == Json_format_timestamp(Num(stamp), tz) IN
       IF r.st = "raise"
       THEN tpc' = "raised" /\ UNCHANGED dateStr
       ELSE tpc' = "formatted" /\ dateStr' = r.v
    /\ UNCHANGED <<text, run1, run2, rssTags, feedTitle, pageTitle, stamp, pubDate,
                   fsVars, mainVars, siteVars, toolVars>>

\* pub_date = self._parse_date(post.date) of _add_item
ParseDate ==
    /\ tpc = "formatted"
    /\ pubDate' = Rss_parse_date(dateStr)
    /\ tpc' = "reparsed"
    /\ UNCHANGED <<text, run1, run2, rssTags, feedTitle, pageTitle, stamp, dateStr,
                   fsVars, mainVars, siteVars, toolVars>>

NextDates == FormatStamp \/ ParseDate

SpecDates == InitDates /\ [][NextDates]_vars

\* the selection tool on two exports: posts with hashtags, with a location
\* and with an unknown date, and a post whose title is null
LocatedItem == Item(Absent, Uri("media", "b.jpg"), Absent, "list", <<Exif(Num(2), Num(6))>>)

ToolFiles ==
    { ArrayFile(<<Rec(Str(TitleRec), Num(200), <<PlainItem(Uri("media", "a.jpg"))>>),
                  Rec(Absent, Num(90), <<LocatedItem>>),
                  Rec(Str(TitleM1), Absent, <<PlainItem(Uri("media", "c.jpg"))>>)>>),
      ArrayFile(<<Rec(Str(TitleRec), Num(200), <<PlainItem(Uri("media", "a.jpg"))>>),
                  Rec(None, Num(30), <<PlainItem(Uri("media", "c.jpg"))>>)>>) }

ToolSelections ==
    {NoSelection} \cup
    {[exists |-> TRUE, items |-> a] : a \in {<<>>, <<1>>, <<2, 1>>, <<5>>, <<-1>>, <<-5>>}}

InitSelect ==
    /\ pc = "idle"
    /\ exit_status = -1
    /\ parser = "json"
    /\ selected_posts = <<>>
    /\ exportExists = TRUE
    /\ jsonExists = TRUE
    /\ htmlExists = FALSE
    /\ data \in ToolFiles
    /\ htmlDoc = <<>>
    /\ exportImages = AllImages
    /\ tz = 0
    /\ posts = Json_parse_posts(jsonExists, data, tz).posts
    /\ selectionFile \in ToolSelections
    /\ NoOutput
    /\ IdleText
    /\ IdleUtil
    /\ spc = "mode"
    /\ selected = {}
    /\ cursor = 0
    /\ cmd = ""

NextSelect ==
    \/ ChooseMode
    \/ InteractiveYes
    \/ InteractiveNo
    \/ InteractiveSkip
    \/ InteractiveDone
    \/ InteractiveQuit
    \/ InteractiveStats
    \/ InteractiveInvalid
    \/ BulkSelectAll
    \/ BulkSelectYears
    \/ BulkSelectHashtags
    \/ BulkSelectLocation
    \/ BulkSelectRange
    \/ BulkClear
    \/ BulkView
    \/ BulkSaveInteractive
    \/ BulkSaveExit
    \/ BulkExit
    \/ BulkInvalid

SpecSelect == InitSelect /\ [][NextSelect]_vars

-----------------------------------------------------------------------------
(* Properties *)

\* the k-th smallest element of a set of integers
Kth(S, k) == CHOOSE x \in S : Cardinality({y \in S : y <= x}) = k

Parsed == pc \notin {"idle", "start", "parse"}

\* the record a Post of the structured-data path was built from
RecordOf(p) == data.records[p.rec]

\* the media items of record pd that carry a non-empty URI
UriItems(pd) ==
    IF pd.kind = "obj" /\ pd.media_k = "list"
    THEN {j \in DOMAIN pd.media : pd.media[j].uri.k = "str" /\ pd.media[j].uri.s # <<>>}
    ELSE {}

\* C1: the structured-data parser is chosen whenever posts_1.json exists, the
\* markup parser only when posts_1.json is absent and posts_1.html exists, and
\* with neither the run exits with status 1 and has created no directory or
\* file
C1_FormatDetection ==
    /\ parser = "json" => jsonExists
    /\ parser = "html" => ~jsonExists /\ htmlExists
    /\ (pc # "start" /\ exportExists /\ jsonExists) => parser = "json"
    /\ (pc # "start" /\ exportExists /\ ~jsonExists /\ htmlExists) => parser = "html"
    /\ (pc # "start" /\ ~jsonExists /\ ~htmlExists)
          => pc = "exit" /\ exit_status = 1 /\ parser = "none" /\ NoOutput

\* C1 witness: both files exist, the structured-data parser ran and the site
\* was generated
C1_Witness ==
    jsonExists /\ htmlExists /\ parser = "json" /\ pc = "exit" /\ exit_status = 0

\* C2: no Post of the output comes from a record without a media item that
\* carries a non-empty URI
C2_NoImageNoPost ==
    parser = "json" =>
        \A j \in DOMAIN posts : UriItems(RecordOf(posts[j])) # {}

\* C2 witness: a record with a title and media items, none with a URI, was
\* dropped while another record of the file produced a Post
C2_Witness ==
    /\ parser = "json" /\ pc = "select" /\ Len(posts) = 1
    /\ \E r \in DOMAIN data.records :
          /\ Truthy(data.records[r].title)
          /\ Len(data.records[r].media) = MaxMedia
          /\ UriItems(data.records[r]) = {}
          /\ posts[1].rec # r

\* C3: a Post's images are the non-empty URIs of its record's media items, in
\* media-array order, none of them empty
C3_ImagesInOrder ==
    parser = "json" =>
        \A j \in DOMAIN posts :
            LET pd == RecordOf(posts[j])
                U  == UriItems(pd)
            IN  /\ Len(posts[j].images) = Cardinality(U)
                /\ \A k \in DOMAIN posts[j].images :
                      /\ posts[j].images[k] # <<>>
                      /\ posts[j].images[k] = pd.media[Kth(U, k)].uri.s

\* C3 witness: a Post with two different images, and a Post whose record has
\* a media item without URI before one with a URI
C3_Witness ==
    /\ parser = "json" /\ pc = "select"
    /\ \E j \in DOMAIN posts :
          /\ Len(posts[j].images) = 1
          /\ Len(RecordOf(posts[j]).media) = 2
          /\ UriItems(RecordOf(posts[j])) = {2}

\* C4: the output is ordered by timestamp descending, and Posts with equal
\* timestamps are in the order of their records
C4_StableDescending ==
    (parser = "json" /\ Parsed) =>
        \A i, j \in DOMAIN posts :
            i < j => /\ posts[i].timestamp >= posts[j].timestamp
                     /\ posts[i].timestamp = posts[j].timestamp
                           => posts[i].rec < posts[j].rec

\* C4 witness: two Posts with equal timestamps behind a Post of a later
\* record with a greater timestamp
C4_Witness ==
    /\ parser = "json" /\ Parsed /\ Len(posts) >= 3
    /\ posts[1].rec > posts[2].rec
    /\ posts[2].timestamp = posts[3].timestamp
    /\ posts[1].timestamp > posts[2].timestamp

\* the record alone would yield a Post
YieldsPost(pd) == Json_parse_post(pd, 1, tz).st = "post"

\* C5: once the top-level JSON is an array, the output holds the Post of every
\* record that yields one, whatever the other records contain
C5_NoRecordAbortsBatch ==
    (parser = "json" /\ Parsed /\ data.k = "array") =>
        \A r \in DOMAIN data.records :
            YieldsPost(data.records[r]) => \E j \in DOMAIN posts : posts[j].rec = r

\* the feed's items are built from the Posts at positions refs of the list
FeedShows(refs) ==
    /\ Len(feed) = Len(refs)
    /\ \A k \in DOMAIN feed : feed[k].rec = posts[refs[k]].rec

\* C6: without a selection file, or with an empty array in it, the feed holds
\* every Post in list order; with a non-empty array of indices it holds the
\* Posts at those indices of the list, in ascending order of index; the site
\* has a page for every Post either way
C6_FeedSelection ==
    feedWritten =>
        LET n == Len(posts)
            S == SeqToSet(selectionFile.items)
            V == S \cap (0..(n - 1))
        IN  /\ Len(pages) = n
            /\ \A j \in DOMAIN pages : pages[j].rec = posts[j].rec
            /\ (~selectionFile.exists \/ S = {}) => FeedShows(AllRefs(n))
            /\ (selectionFile.exists /\ S # {} /\ \A i \in S : i >= 0)
                  => FeedShows([k \in 1..Cardinality(V) |-> Kth(V, k) + 1])

\* C6 witness: a feed of the second Post alone, on a site of two pages or more
C6_Witness ==
    /\ feedWritten /\ selectionFile.exists
    /\ SeqToSet(selectionFile.items) = {1}
    /\ Len(pages) >= 2 /\ Len(feed) = 1 /\ feed[1].rec = posts[2].rec

\* the title and hashtags of Post p are those extracted from raw title v
TitleFrom(p, v) ==
    LET h == Json_extract_hashtags(Json_fix_encoding(v).v) IN
    p.title = h.clean /\ p.hashtags = h.tags

\* C7: the resolved title is the record's title if that is non-empty, else the
\* title of the first media item with a non-empty title, else empty
C7_TitleResolution ==
    parser = "json" =>
        \A j \in DOMAIN posts :
            LET pd == RecordOf(posts[j])
                T  == {i \in DOMAIN pd.media : Truthy(pd.media[i].title)}
            IN  IF Truthy(pd.title) THEN TitleFrom(posts[j], pd.title)
                ELSE IF T # {} THEN TitleFrom(posts[j], pd.media[Kth(T, 1)].title)
                ELSE ~Truthy(posts[j].title) /\ posts[j].hashtags = <<>>

\* C7 witness: a record without a title of its own whose two media items
\* carry different titles
C7_Witness ==
    /\ parser = "json" /\ pc = "select"
    /\ \E j \in DOMAIN posts :
          LET pd == RecordOf(posts[j]) IN
          /\ ~Truthy(pd.title) /\ Len(pd.media) = 2
          /\ Truthy(pd.media[1].title) /\ Truthy(pd.media[2].title)
          /\ pd.media[1].title # pd.media[2].title
          /\ posts[j].hashtags = <<>> /\ posts[j].title = Str(TitleM1)

\* the EXIF entries of record pd, as <<media index, entry index>>
ExifPositions(pd) ==
    UNION {{<<i, k>> : k \in DOMAIN pd.media[i].exif} : i \in DOMAIN pd.media}

\* position q is scanned before position r
Before(q, r) == q[1] < r[1] \/ (q[1] = r[1] /\ q[2] < r[2])

\* the position of P scanned first
FirstPos(P) == CHOOSE q \in P : \A r \in P \ {q} : Before(q, r)

ExifAt(pd, q) == pd.media[q[1]].exif[q[2]]

\* C8: a Post's latitude is that of the first EXIF entry, in scan order, with
\* a truthy latitude, and its longitude that of the first entry with a truthy
\* longitude
C8_FirstExifWins ==
    parser = "json" =>
        \A j \in DOMAIN posts :
            LET pd == RecordOf(posts[j])
                E  == ExifPositions(pd)
                LA == {q \in E : Truthy(ExifAt(pd, q).latitude)}
                LO == {q \in E : Truthy(ExifAt(pd, q).longitude)}
            IN  /\ posts[j].latitude =
                      (IF LA = {} THEN None ELSE ExifAt(pd, FirstPos(LA)).latitude)
                /\ posts[j].longitude =
                      (IF LO = {} THEN None ELSE ExifAt(pd, FirstPos(LO)).longitude)

\* C8 witness: latitude and longitude come from different entries, and a later
\* entry of another media item carries both
C8_Witness ==
    /\ parser = "json" /\ pc = "select"
    /\ \E j \in DOMAIN posts :
          LET pd == RecordOf(posts[j]) IN
          /\ posts[j].latitude = Num(1) /\ posts[j].longitude = Num(5)
          /\ Len(pd.media) = 2
          /\ pd.media[2].exif = <<Exif(Num(2), Num(6))>>

\* the indices of text t where a hashtag starts
TagStarts(t) == {i \in 1..(Len(t) - 1) : t[i] = "#" /\ IsWord(t[i + 1])}

\* the hashtag that starts at index i of t: the longest run of word
\* characters after the '#'
TagAt(t, i) ==
    LET e == CHOOSE e \in (i + 1)..Len(t) :
                 /\ \A j \in (i + 1)..e : IsWord(t[j])
                 /\ (e = Len(t) \/ ~IsWord(t[e + 1]))
    IN  SubSeq(t, i + 1, e)

\* tags lists, in order of first occurrence and in the casing of the first
\* occurrence, the hashtags of t that differ case-insensitively
FirstOccurrences(t, tags) ==
    LET F == {i \in TagStarts(t) :
                 \A h \in TagStarts(t) : h < i => Lower(TagAt(t, h)) # Lower(TagAt(t, i))}
    IN  /\ Len(tags) = Cardinality(F)
        /\ \A k \in DOMAIN tags : tags[k] = TagAt(t, Kth(F, k))

\* C9: the hashtags list holds no two entries equal case-insensitively, each
\* in the casing of its first occurrence, in order of first occurrence
C9_HashtagsUnique ==
    tpc # "input" =>
        /\ \A i, j \in DOMAIN run1.tags :
              i # j => Lower(run1.tags[i]) # Lower(run1.tags[j])
        /\ FirstOccurrences(text, run1.tags)
        /\ FirstOccurrences(text, rssTags)

\* C9 witness: a tag written twice in different casing around another tag
C9_Witness ==
    /\ tpc = "once"
    /\ text = <<"#", "A", "#", "b", "#", "a">>
    /\ run1.tags = <<<<"A">>, <<"b">>>>
    /\ rssTags = run1.tags

\* C10: a second extraction on the cleaned text finds no hashtag and returns
\* the same cleaned text
C10_Idempotent ==
    tpc = "twice" => run2.tags = <<>> /\ run2.clean = run1.clean

\* C10 witness: a doubled '#', whose first '#' stays in the cleaned text
C10_Witness ==
    /\ tpc = "twice"
    /\ run1.tags # <<>>
    /\ \E i \in DOMAIN run1.clean : run1.clean[i] = "#"
    /\ \E i \in 1..(Len(text) - 1) : text[i] = "#" /\ text[i + 1] = "#"


\* the 1-based positions of the spaces among the first n characters of t
SpacesWithin(t, n) == {i \in 1..n : i <= Len(t) /\ t[i] = " "}

\* C11: the feed's truncation returns a text of at most 100 characters
\* unchanged; it cuts a longer text just before the last space among its
\* first 100 characters and appends "..."; without such a space the result
\* is the first 100 characters and "...".
C11_FeedTruncation ==
    tpc \in {"feed_title", "page_title"} =>
        /\ Len(text) <= FeedLimit => feedTitle = text
        /\ Len(text) > FeedLimit /\ SpacesWithin(text, FeedLimit) # {} =>
              \E p \in SpacesWithin(text, FeedLimit) :
                  /\ \A q \in SpacesWithin(text, FeedLimit) : q <= p
                  /\ feedTitle = SubSeq(text, 1, p - 1) \o Ellipsis
        /\ Len(text) > FeedLimit /\ SpacesWithin(text, FeedLimit) = {} =>
              /\ Len(feedTitle) = FeedLimit + 3
              /\ feedTitle = SubSeq(text, 1, FeedLimit) \o Ellipsis

\* a long text with two spaces among its first 100 characters
C11_Witness ==
    /\ tpc = "feed_title"
    /\ Len(text) > FeedLimit
    /\ Cardinality(SpacesWithin(text, FeedLimit)) >= 2
    /\ text[FeedLimit] = " "
    /\ Len(feedTitle) = FeedLimit + 2


\* the 0-based positions p with 15 <= p <= 60 at which t has '. ', '! ' or '? '
SentenceEnds(t) ==
    {p \in MinCut..PageLimit :
        p + 2 <= Len(t) /\ t[p + 1] \in {".", "!", "?"} /\ t[p + 2] = " "}

\* C12: the page's truncation of a text of more than 60 characters that has
\* '. ', '! ' or '? ' at a position p with 15 <= p <= 60 returns the text up
\* to and including the mark at the first such position, whichever mark it
\* is and whatever occurs before position 15.
C12_FirstSentenceEnd ==
    tpc = "page_title" /\ Len(text) > PageLimit /\ SentenceEnds(text) # {} =>
        \E p \in SentenceEnds(text) :
            /\ \A q \in SentenceEnds(text) : p <= q
            /\ pageTitle = SubSeq(text, 1, p + 1)


\* the timestamp is 0, or a number datetime.fromtimestamp cannot convert
Unconvertible(ts) ==
    ts.k = "num" /\ (ts.n = 0 \/ ts.n > YearMaxTs \/ ts.n < YearMinTs)

\* C13: a record that yields a Post with an ordinary timestamp still yields
\* one, dated "Unknown date", when its timestamp is 0 or cannot be converted,
\* whatever the magnitude.
C13_UnknownDateKeepsPost ==
    (parser = "json" /\ Parsed /\ data.k = "array" /\ Len(data.records) = 1) =>
        LET pd == data.records[1] IN
        (/\ pd.kind = "obj"
         /\ Unconvertible(pd.creation_timestamp)
         /\ YieldsPost([pd EXCEPT !.creation_timestamp = Num(30)])) =>
            /\ Len(posts) = 1
            /\ posts[1].date = UnknownDate


\* the img tags of a block that carry a non-empty src
Sources(div) == {j \in DOMAIN div.imgs : div.imgs[j].k = "str" /\ div.imgs[j].s # <<>>}

\* the blocks of the document with an image source or a non-empty title
KeptBlocks == {i \in DOMAIN htmlDoc : Sources(htmlDoc[i]) # {} \/ htmlDoc[i].title # <<>>}

\* C14: the markup parser returns one Post for each block that has an image
\* source or a non-empty title and none for the other blocks, in document
\* order, with the block's title text as it is and no hashtags; a block with
\* a title and no image source gives a Post with an empty images sequence.
C14_MarkupKeepDrop ==
    (parser = "html" /\ Parsed) =>
        /\ Len(posts) = Cardinality(KeptBlocks)
        /\ \A k \in DOMAIN posts :
              LET div == htmlDoc[posts[k].rec] IN
              /\ posts[k].rec = Kth(KeptBlocks, k)
              /\ posts[k].title = Str(div.title)
              /\ posts[k].hashtags = <<>>
              /\ Sources(div) = {} => posts[k].images = <<>>

\* a block without title and image source before a block with a title that
\* holds hashtags and no image
C14_Witness ==
    /\ parser = "html" /\ Parsed
    /\ Len(htmlDoc) = 2
    /\ htmlDoc[1].title = <<>> /\ Sources(htmlDoc[1]) = {} /\ htmlDoc[1].imgs # <<>>
    /\ "#" \in SeqToSet(htmlDoc[2].title) /\ htmlDoc[2].imgs = <<>>
    /\ Len(posts) = 1
    /\ posts[1].rec = 2
    /\ posts[1].images = <<>>


\* C15: once parse_posts has returned, the Posts main holds stay as
\* parse_posts returned them through selection, image copying, page and feed
\* generation.
C15_PostsImmutable ==
    (Parsed /\ posts # <<>>) => posts = ParserResult.posts


\* C16: for a non-zero timestamp that datetime.fromtimestamp converts, the
\* feed's publication date made from the formatted date is non-empty and
\* denotes the timestamp's instant cut to the minute, on every machine.
C16_DateRoundTrip ==
    (tpc = "reparsed" /\ stamp # 0 /\ YearMinTs <= stamp /\ stamp <= YearMaxTs) =>
        /\ pubDate.k = "rfc822"
        /\ pubDate.minute = stamp \div 60


\* C17: a step of the selection tool that executes 'q' or '0' ends the tool
\* and leaves selected_posts.json as it is; a step that changes the file is
\* 'd', option 8, option 9 or the step that runs out of posts, and it writes
\* the in-memory selection.  So after a quit the file holds what the last
\* save of the session wrote, or what it held at the start.
C17_QuitKeepsFile ==
    [][ /\ cmd' \in {"q", "0"} => selectionFile' = selectionFile /\ spc' = "quit"
        /\ selectionFile' # selectionFile =>
              /\ cmd' \in {"d", "8", "9"} \/ (spc' = "returned" /\ cursor' = Len(posts))
              /\ selectionFile' = Tool_save_selection(selected') ]_vars

\* 'q' after option 8 saved [0] and 'y' added a second index in memory
C17_Witness ==
    /\ spc = "quit"
    /\ cmd = "q"
    /\ selectionFile = [exists |-> TRUE, items |-> <<0>>]
    /\ selected = {0, 1}


\* C18: the Post at position j of the full list has the page post-j.html,
\* and every feed item's link and guid name the page written for the item's
\* own Post, also when the feed holds a subset of the posts.
C18_LinksMatchPages ==
    feedWritten =>
        /\ \A j \in DOMAIN pages : pages[j].post_id = j /\ pages[j].rec = posts[j].rec
        /\ \A k \in DOMAIN feed :
              /\ feed[k].link \in DOMAIN pages
              /\ pages[feed[k].link].rec = feed[k].rec
              /\ feed[k].guid = feed[k].link


\* the run is past the selection step of main
Selecting == pc \in {"generator", "copy", "pages", "index", "feed", "done"}

\* C19: whatever integers the selection file holds, building the feed subset
\* does not fail, and the subset is a duplicate-free subsequence of the post
\* list in list order that holds only Posts whose own index is in the file.
C19_SelectionSafe ==
    /\ ~(pc = "exit" /\ exit_status = 1 /\ posts # <<>>)
    /\ (Selecting /\ selectionFile.exists /\ selectionFile.items # <<>>) =>
          /\ \A a, b \in DOMAIN selected_posts :
                a < b => selected_posts[a] < selected_posts[b]
          /\ \A k \in DOMAIN selected_posts :
                selected_posts[k] - 1 \in SeqToSet(selectionFile.items)


\* the image paths of a parsed Post that exist under the export root
ExistingSources(images) ==
    LET Exists(path) == path \in exportImages IN SelectSeq(images, Exists)

\* the copy loop of generate_site has run
Copied == pc \in {"pages", "index", "feed", "done"}

\* C20: after the copy loop, every image path a Post holds names a file of
\* site/images that is the copy of the Post's own source image, so two
\* different source files never share a destination.
C20_OwnCopyPerImage ==
    Copied =>
        \A j \in DOMAIN posts :
            LET srcs == ExistingSources(ParserResult.posts[j].images) IN
            /\ Len(posts[j].images) = Len(srcs)
            /\ \A k \in DOMAIN srcs :
                  [name |-> PathName(posts[j].images[k]), src |-> srcs[k]] \in siteImages

=============================================================================
